---- MODULE Spec2Model ----
(***************************************************************************)
(* CSpxHttpAudioStreamSession (http_audio_stream_session.cpp): the session *)
(* that sequences one audio pump, an optional codec adapter, the HTTP reco *)
(* engine adapter and the std::promise that carries the result of one      *)
(* streaming cycle.                                                        *)
(*                                                                         *)
(* Threads: the caller (Init*, StartStreamingAudioAndWaitForResult), the   *)
(* thread service's worker (runs the packaged tasks), one delivery thread  *)
(* per audio pump (SetFormat / ProcessAudio callbacks), a thread calling   *)
(* Error() (pump or transport failure) and a thread calling Term().        *)
(* A step of a thread holds at most one access to the promise reference    *)
(* m_audioIsDone or to the promise itself, so that every order in which    *)
(* the threads reach the promise is a behaviour of the model.              *)
(***************************************************************************)
EXTENDS Integers, Sequences, FiniteSets, TLC

(* ------------------------------ bounds -------------------------------- *)
MaxPumps == 2
MaxCycles == 2
MaxChunks == 2

(* ----------------------------- constants ------------------------------ *)
\* value of m_microphoneTimeoutInMS after construction, in milliseconds
DefaultMicrophoneTimeoutInMS == 3
\* nAvgBytesPerSec reported by every pump format of the model
PumpAvgBytesPerSec == 2000
\* the factor of FromBytesToMilisecond
MsPerSecond == 1000
\* 2^16: uint32_t values are split in two 16-bit halves to multiply them
Half == 65536

Null == 0
PumpIds == 1..MaxPumps
ChanIds == 1..MaxCycles

\* sizes (bytes) of the chunks a pump hands to ProcessAudio
ChunkSizes == {3, 4}

\* the output format InitFromStream falls back to: nChannels, wBitsPerSample,
\* nSamplesPerSec
DefaultChannels == 1
DefaultBitsPerSample == 16
DefaultSamplerate == 16000

\* values of the properties OutputPCMChannelCount, OutputPCMNumBitsPerSample
\* and OutputPCMSamplerate
ChannelCountStrings == { <<"2">>, <<"x">> }
BitsPerSampleStrings == { <<"8">>, <<"x">> }
SamplerateStrings == { <<"8", "0", "0", "0">>, <<"x">> }

\* values of the property SPEECH-MicrophoneTimeoutInSpeakerRecognitionInMilliseconds
TimeoutStrings == { <<"0">>, <<"2">>, <<"x">> }

(* ----------------------------- transport ------------------------------ *)
\* frames a connection sends at most
MaxFrames == 3
\* "A return code or zero if successful"
TransportOk == 0
\* the return code of a call the connection cannot serve
TransportInvalidState == 1
TransportStates == {"Closed", "Connecting", "Open", "Failed"}

(* ------------------------------ results ------------------------------- *)
NoResult == "null"                 \* RecognitionResultPtr() : empty pointer
RecoResult == "reco"               \* what m_reco->GetResult() returns
ErrAccess == "err_access"          \* "Error accessing audio pump"
ErrTimeout == "err_timeout"        \* "Bailed out due to wait more than 1 minutes ..."
ErrTerminate == "err_terminate"    \* "Terminate the http session."
ErrExternal == "err_external"      \* Error(msg) from the pump or the transport
ErrTask == "err_task"              \* Error(error) from the CreateTask wrapper
ProfileResult == "profile"         \* what reco->ModifyVoiceProfile returns
Unset == "unset"                   \* a promise whose value is not set yet
Stale == "stale"                   \* a value nobody can read: the future is gone
Results == {RecoResult, ErrAccess, ErrTimeout, ErrTerminate, ErrExternal, ErrTask}

\* what the task wrapper catches (SPXAPI_CATCH_ONLY fills `error`)
NoError == "none"
AlreadyInitializedError == "SPXERR_ALREADY_INITIALIZED"
OpenError == "Open(filename) failed"
CodecError == "SPXERR_GSTREAMER_NOT_FOUND_ERROR"
FormatError == "GetFormat / m_reco->SetFormat failed"
ParseError == "error in parsing"
StartPumpError == "StartPump failed"
ModifyError == "reco->ModifyVoiceProfile failed"
TaskErrors == {AlreadyInitializedError, OpenError, CodecError, FormatError, ParseError,
               StartPumpError, ModifyError}

VARIABLES
  m_audioPump,              \* Null or the pump the session owns
  m_codecAdapter,           \* Null or the codec adapter (named by the pump it was made for)
  m_reco,                   \* Null or the reco engine adapter (named by the call that made it)
  m_audioIsDone,            \* Null or the promise the session refers to
  m_fromMicrophone,
  m_totalAudioinMS,
  m_microphoneTimeoutInMS,
  m_avgBytesPerSecond,
  promise,                  \* promise[c]: Unset or the value set_value stored
  pump,                     \* pump[p]: the pump object p and its delivery thread
  queue,                    \* the thread service's FIFO of packaged tasks
  tsTerminated,             \* m_threadService->Term() has run
  wpc, wtask, wlocal,       \* the worker: position, running task, locals of the task body
  cpc,                      \* the caller: idle, or blocked in ExecuteSync
  nInit,                    \* number of Init* calls made so far
  epc,                      \* the thread calling Error(): idle, or a future_error thrown
  tpc,                      \* the thread calling Term()
  cycle,                    \* bookkeeping of the running streaming cycle (history)
  transportState,           \* the connection of the transport: Closed, Connecting, Open, Failed
  transportWire,            \* the frames the transport has sent
  transportReturn           \* the return code of the last transport call

vars == << m_audioPump, m_codecAdapter, m_reco, m_audioIsDone, m_fromMicrophone,
           m_totalAudioinMS, m_microphoneTimeoutInMS, m_avgBytesPerSecond,
           promise, pump, queue, tsTerminated, wpc, wtask, wlocal,
           cpc, nInit, epc, tpc, cycle, transportState, transportWire, transportReturn >>

session == << m_audioPump, m_codecAdapter, m_reco, m_audioIsDone, m_fromMicrophone,
              m_totalAudioinMS, m_microphoneTimeoutInMS, m_avgBytesPerSecond >>
callerVars == << cpc, nInit >>
errorVars == << epc >>
termVars == << tpc >>
workerVars == << wpc, wtask, wlocal >>
transportVars == << transportState, transportWire, transportReturn >>

(* --------------------------- pure functions --------------------------- *)
Digits == {"0", "1", "2", "3", "4", "5", "6", "7", "8", "9"}

DigitValue(ch) ==
  CASE ch = "0" -> 0 [] ch = "1" -> 1 [] ch = "2" -> 2 [] ch = "3" -> 3
    [] ch = "4" -> 4 [] ch = "5" -> 5 [] ch = "6" -> 6 [] ch = "7" -> 7
    [] ch = "8" -> 8 [] ch = "9" -> 9

\* std::stoi has no digit to convert: it throws std::invalid_argument
StoiThrows(s) == s = <<>> \/ Head(s) \notin Digits

RECURSIVE StoiFrom(_, _)
StoiFrom(s, acc) ==
  IF s = <<>> \/ Head(s) \notin Digits THEN acc
  ELSE StoiFrom(Tail(s), acc * 10 + DigitValue(Head(s)))

\* std::stoi: the value of the leading digits
Stoi(s) == StoiFrom(s, 0)

\* static_cast<uint32_t>(bytes * 1000) / bytesPerSecond, bytes < 2^31, with the
\* product reduced modulo 2^32 (computed on 16-bit halves)
FromBytesToMilisecond(bytes, bytesPerSecond) ==
  LET low == (bytes % Half) * MsPerSecond
      hi == ((bytes \div Half) * MsPerSecond + low \div Half) % Half
      lo == low % Half
  IN  (hi \div bytesPerSecond) * Half + ((hi % bytesPerSecond) * Half + lo) \div bytesPerSecond

\* the format InitFromStream hands to the codec adapter, lines 432-451: the
\* three stoi calls share one try block, whose handler sets all three defaults
DefaultFormat == << DefaultChannels, DefaultBitsPerSample, DefaultSamplerate >>

\* the handler leaves nChannels as the try block set it
CodecOutputFormatKeepsChannels(numChannelsString, numBitsPerSampleString, sampleRateString) ==
  IF StoiThrows(numChannelsString) THEN DefaultFormat
  ELSE IF StoiThrows(numBitsPerSampleString) \/ StoiThrows(sampleRateString)
  THEN << Stoi(numChannelsString) % Half, DefaultBitsPerSample, DefaultSamplerate >>
  ELSE << Stoi(numChannelsString) % Half, Stoi(numBitsPerSampleString) % Half,
          Stoi(sampleRateString) >>

CodecOutputFormat(numChannelsString, numBitsPerSampleString, sampleRateString) ==
  IF \/ StoiThrows(numChannelsString)
     \/ StoiThrows(numBitsPerSampleString)
     \/ StoiThrows(sampleRateString)
  THEN DefaultFormat
  ELSE << Stoi(numChannelsString) % Half, Stoi(numBitsPerSampleString) % Half,
          Stoi(sampleRateString) >>

(* ------------------------- error information -------------------------- *)
\* the category of every ErrorInfo the session makes: FromRuntimeMessage
RuntimeError == "RuntimeError"

\* ErrorInfo::FromRuntimeMessage(msg)
FromRuntimeMessage(msg) == [ category |-> RuntimeError, detail |-> msg ]

\* the TransportErrorInfo the transport hands to its error callback on a
\* connection failure: reason, errorCode, errorString
ConnectionFailure ==
  [ reason |-> "TRANSPORT_ERROR_CONNECTION_FAILURE", errorCode |-> 1,
    errorString |-> "Connection failed" ]

\* the msg of the Error(msg) calls of the model's Error action: the owner of
\* the transport passes the errorString on
ExternalMessage == ConnectionFailure.errorString

\* the ErrorInfo inside an error result: CreateErrorResult(error)
ErrorInfoOf(result) ==
  CASE result = ErrAccess -> FromRuntimeMessage("Error accessing audio pump")
    [] result = ErrTimeout -> FromRuntimeMessage("Bailed out due to wait more than 1 minutes")
    [] result = ErrTerminate -> FromRuntimeMessage("Terminate the http session.")
    [] result = ErrExternal -> FromRuntimeMessage(ExternalMessage)
    [] result = ErrTask -> FromRuntimeMessage("")

(* ------------------------------- state -------------------------------- *)
NoFormat == << >>                  \* no format was handed to a codec adapter
NoOverrides == << >>               \* the body has not read the three properties

\* format: what the codec adapter made for this pump got from SetFormat
NoPump == [ state |-> "None", kind |-> "none", opened |-> FALSE, reader |-> "none",
            codec |-> Null, pc |-> "off", fin |-> FALSE, sent |-> 0, stop |-> FALSE,
            bytes |-> 0, flushes |-> 0, format |-> NoFormat ]

\* recoFormat: the pump whose format the body has handed to m_reco->SetFormat
NoLocals == [ audioPump |-> Null, chan |-> Null, result |-> NoResult, fault |-> FALSE,
              error |-> NoError, overrides |-> NoOverrides, recoFormat |-> Null ]

NoTask == [ op |-> "none", id |-> 0, a |-> FALSE, b |-> FALSE ]

\* n: calls of StartStreamingAudioAndWaitForResult and ModifyVoiceProfile so
\* far (the calls that wait for their task); chan: the promise
\* whose future the running body holds; winner: the value of the first resolver
\* of that promise (set_value or the deadline); term: Term was called while
\* the body was waiting on the unresolved promise
NoCycle == [ n |-> 0, chan |-> Null, winner |-> NoResult, term |-> FALSE ]

\* CSpxHttpAudioStreamSession::Init and the members' initializers
Init ==
  /\ m_audioPump = Null
  /\ m_codecAdapter = Null
  /\ m_reco = Null
  /\ m_audioIsDone = Null
  /\ m_fromMicrophone = FALSE
  /\ m_totalAudioinMS = 0
  /\ m_microphoneTimeoutInMS = DefaultMicrophoneTimeoutInMS
  /\ m_avgBytesPerSecond = 0
  /\ promise = [c \in ChanIds |-> Unset]
  /\ pump = [p \in PumpIds |-> NoPump]
  /\ queue = <<>>
  /\ tsTerminated = FALSE
  /\ wpc = "idle" /\ wtask = NoTask /\ wlocal = NoLocals
  /\ cpc = "idle" /\ nInit = 0
  /\ epc = "idle"
  /\ tpc = "idle"
  /\ cycle = NoCycle
  /\ transportState = "Closed"
  /\ transportWire = <<>>
  /\ transportReturn = TransportOk

(* ------------------------ the promise (one-shot) ---------------------- *)
\* std::promise::set_value: stores v when no value is stored; otherwise it
\* throws std::future_error(promise_already_satisfied) in the calling thread
SetValueThrows(c) == promise[c] # Unset

\* the future of promise c was destroyed with the body that made it: the
\* value, if any, is out of reach; that one is stored still makes set_value throw
FutureDestroyed(pr, c) ==
  IF c # Null /\ pr[c] # Unset THEN [pr EXCEPT ![c] = Stale] ELSE pr

SetValue(c, v) ==
  IF SetValueThrows(c)
  THEN UNCHANGED << promise, cycle >>
  ELSE /\ promise' = [promise EXCEPT ![c] = IF c = cycle.chan THEN v ELSE Stale]
       /\ cycle' = IF c = cycle.chan /\ cycle.winner = NoResult
                   THEN [cycle EXCEPT !.winner = v] ELSE cycle

(* ------------------------------ the pump ------------------------------ *)
\* ISpxAudioPump::StopPump: a pump that is Processing is asked to stop; its
\* thread then delivers the terminating SetFormat(nullptr) and goes Idle
PumpStopped(pm, p) ==
  IF p # Null /\ pm[p].state = "Processing" THEN [pm EXCEPT ![p].stop = TRUE] ELSE pm

\* CSpxHttpAudioStreamSession::StopPump
StopPump(pm) == PumpStopped(pm, m_audioPump)

\* the pump thread is over: the pump is Idle; a pump the session has released
\* is destroyed with its thread
PumpIdle(p, pm) ==
  IF m_audioPump = p
  THEN [pm EXCEPT ![p].pc = "off", ![p].state = "Idle", ![p].stop = FALSE]
  ELSE [pm EXCEPT ![p] = NoPump]

\* the session releases its reference: a pump without a running thread is
\* destroyed, a running one is told to stop (what it has delivered is of no
\* interest from here on)
PumpReleased(pm, p) ==
  IF p = Null THEN pm
  ELSE IF pm[p].pc = "off" THEN [pm EXCEPT ![p] = NoPump]
  ELSE [pm EXCEPT ![p].stop = TRUE, ![p].sent = 0, ![p].bytes = 0, ![p].flushes = 0]

\* the pump thread leaves a callback: back to its loop, or Idle after the
\* terminating SetFormat(nullptr)
PumpReturn(p, pm) ==
  IF pm[p].fin THEN PumpIdle(p, pm) ELSE [pm EXCEPT ![p].pc = "loop"]

\* an exception leaves a callback: fatal for the pump, which goes Idle
PumpFatal(p, pm) == PumpIdle(p, pm)

(* ---------------------------- the caller ------------------------------ *)
Submit(task) == queue' = Append(queue, task)

\* the call that submits a task of this kind waits for the task and takes its
\* outcome (ExecuteSync: StartStreamingAudioAndWaitForResult and
\* ModifyVoiceProfile); the Init* calls use ExecuteAsync and drop the future
ExecutedSync(op) == op \in {"StartStreaming", "ModifyVoiceProfile"}

\* the caller uses the session until somebody calls Term
CanInit == cpc = "idle" /\ tpc = "idle" /\ ~tsTerminated /\ nInit < MaxPumps

\* InitFromFile: m_threadService->ExecuteAsync(task)
CallInitFromFile ==
  /\ CanInit
  /\ \E openOk \in BOOLEAN :
       Submit([op |-> "InitFromFile", id |-> nInit + 1, a |-> openOk, b |-> FALSE])
  /\ nInit' = nInit + 1
  /\ UNCHANGED << session, promise, pump, tsTerminated, workerVars, cpc,
                  errorVars, termVars, transportVars, cycle >>

\* InitFromMicrophone: m_threadService->ExecuteAsync(task)
CallInitFromMicrophone ==
  /\ CanInit
  /\ Submit([op |-> "InitFromMicrophone", id |-> nInit + 1, a |-> FALSE, b |-> FALSE])
  /\ nInit' = nInit + 1
  /\ UNCHANGED << session, promise, pump, tsTerminated, workerVars, cpc,
                  errorVars, termVars, transportVars, cycle >>

\* InitFromStream: m_threadService->ExecuteAsync(task); a: the stream declares
\* WAVE_FORMAT_PCM, b: a CSpxCodecAdapter can be created
CallInitFromStream ==
  /\ CanInit
  /\ \E pcm \in BOOLEAN : \E codec \in (IF pcm THEN {FALSE} ELSE BOOLEAN) :
       Submit([op |-> "InitFromStream", id |-> nInit + 1, a |-> pcm, b |-> codec])
  /\ nInit' = nInit + 1
  /\ UNCHANGED << session, promise, pump, tsTerminated, workerVars, cpc,
                  errorVars, termVars, transportVars, cycle >>

\* StartStreamingAudioAndWaitForResult: m_threadService->ExecuteSync(task)
CallStartStreaming ==
  /\ cpc = "idle" /\ tpc = "idle" /\ ~tsTerminated /\ cycle.n < MaxCycles
  /\ Submit([op |-> "StartStreaming", id |-> cycle.n + 1, a |-> FALSE, b |-> FALSE])
  /\ cpc' = "blocked"
  /\ cycle' = [NoCycle EXCEPT !.n = cycle.n + 1]
  /\ UNCHANGED << session, promise, pump, tsTerminated, workerVars, nInit,
                  errorVars, termVars, transportVars >>

\* ModifyVoiceProfile: m_threadService->ExecuteSync(task)
CallModifyVoiceProfile ==
  /\ cpc = "idle" /\ tpc = "idle" /\ ~tsTerminated /\ cycle.n < MaxCycles
  /\ Submit([op |-> "ModifyVoiceProfile", id |-> cycle.n + 1, a |-> FALSE, b |-> FALSE])
  /\ cpc' = "blocked"
  /\ cycle' = [NoCycle EXCEPT !.n = cycle.n + 1]
  /\ UNCHANGED << session, promise, pump, tsTerminated, workerVars, nInit,
                  errorVars, termVars, transportVars >>

(* ------------------- the worker: CreateTask and Init* ------------------ *)
\* a worker that takes the task submitted last
DequeueNewest ==
  /\ wpc = "idle" /\ queue # <<>>
  /\ wtask' = queue[Len(queue)]
  /\ queue' = SubSeq(queue, 1, Len(queue) - 1)
  /\ wpc' = "run"
  /\ wlocal' = NoLocals
  /\ UNCHANGED << session, promise, pump, tsTerminated, callerVars, errorVars, termVars, transportVars, cycle >>

\* CSpxThreadService: the worker takes the oldest task of the queue
Dequeue ==
  /\ wpc = "idle" /\ queue # <<>>
  /\ wtask' = Head(queue)
  /\ queue' = Tail(queue)
  /\ wpc' = "run"
  /\ wlocal' = NoLocals
  /\ UNCHANGED << session, promise, pump, tsTerminated, callerVars, errorVars, termVars, transportVars, cycle >>

\* a pump object just created by SpxCreateObjectWithSite
NewPump(kind, opened, reader, codec) ==
  [NoPump EXCEPT !.state = "Idle", !.kind = kind, !.opened = opened,
                 !.reader = reader, !.codec = codec]

\* the task body of InitFromFile
InitFromFile ==
  /\ wpc = "run" /\ wtask.op = "InitFromFile"
  /\ IF m_audioPump # Null
     THEN /\ wpc' = "catch"
          /\ wlocal' = [wlocal EXCEPT !.error = AlreadyInitializedError]
          /\ UNCHANGED << m_audioPump, pump >>
     ELSE /\ pump' = [pump EXCEPT ![wtask.id] = NewPump("file", wtask.a, "file", Null)]
          /\ m_audioPump' = wtask.id
          /\ wpc' = IF wtask.a THEN "ret" ELSE "catch"   \* Open(filename) throws
          /\ wlocal' = [wlocal EXCEPT !.error = IF wtask.a THEN NoError ELSE OpenError]
  /\ UNCHANGED << m_codecAdapter, m_reco, m_audioIsDone, m_fromMicrophone, m_totalAudioinMS,
                  m_microphoneTimeoutInMS, m_avgBytesPerSecond, promise, queue, tsTerminated,
                  wtask, callerVars, errorVars, termVars, transportVars, cycle >>

\* InitFromMicrophone without the SPXERR_ALREADY_INITIALIZED test: the new
\* pump takes the place of the one the session has
InitFromMicrophoneReplacing ==
  /\ wpc = "run" /\ wtask.op = "InitFromMicrophone"
  /\ pump' = [pump EXCEPT ![wtask.id] = NewPump("microphone", TRUE, "device", Null)]
  /\ m_audioPump' = wtask.id
  /\ m_fromMicrophone' = TRUE
  /\ wpc' = "ret"
  /\ UNCHANGED << m_codecAdapter, m_reco, m_audioIsDone, m_totalAudioinMS,
                  m_microphoneTimeoutInMS, m_avgBytesPerSecond, promise, queue, tsTerminated,
                  wtask, wlocal, callerVars, errorVars, termVars, transportVars, cycle >>

\* the task body of InitFromMicrophone
InitFromMicrophone ==
  /\ wpc = "run" /\ wtask.op = "InitFromMicrophone"
  /\ IF m_audioPump # Null
     THEN /\ wpc' = "catch"
          /\ wlocal' = [wlocal EXCEPT !.error = AlreadyInitializedError]
          /\ UNCHANGED << m_audioPump, pump, m_fromMicrophone >>
     ELSE /\ pump' = [pump EXCEPT ![wtask.id] = NewPump("microphone", TRUE, "device", Null)]
          /\ m_audioPump' = wtask.id
          /\ m_fromMicrophone' = TRUE
          /\ wpc' = "ret"
          /\ UNCHANGED wlocal
  /\ UNCHANGED << m_codecAdapter, m_reco, m_audioIsDone, m_totalAudioinMS,
                  m_microphoneTimeoutInMS, m_avgBytesPerSecond, promise, queue, tsTerminated,
                  wtask, callerVars, errorVars, termVars, transportVars, cycle >>

\* InitFromStream that creates the pump (lines 454-456) before it looks at the
\* format: the codec failure leaves a pump behind
InitFromStreamPumpFirst ==
  /\ wpc = "run" /\ wtask.op = "InitFromStream"
  /\ IF m_audioPump # Null
     THEN /\ wpc' = "catch"
          /\ wlocal' = [wlocal EXCEPT !.error = AlreadyInitializedError]
          /\ UNCHANGED << m_audioPump, pump, m_codecAdapter >>
     ELSE IF ~wtask.a /\ ~wtask.b
     THEN /\ m_codecAdapter' = Null
          /\ pump' = [pump EXCEPT ![wtask.id] = NewPump("stream", TRUE, "none", Null)]
          /\ m_audioPump' = wtask.id
          /\ wpc' = "catch"
          /\ wlocal' = [wlocal EXCEPT !.error = CodecError]
     ELSE IF wtask.a
     THEN /\ pump' = [pump EXCEPT ![wtask.id] =
                        IF m_codecAdapter = Null
                        THEN NewPump("stream", TRUE, "stream", Null)
                        ELSE NewPump("stream", TRUE, "codec", m_codecAdapter)]
          /\ m_audioPump' = wtask.id
          /\ wpc' = "ret"
          /\ UNCHANGED << m_codecAdapter, wlocal >>
     ELSE \E numChannelsString \in ChannelCountStrings,
             numBitsPerSampleString \in BitsPerSampleStrings,
             sampleRateString \in SamplerateStrings :
          /\ m_codecAdapter' = wtask.id
          /\ wlocal' = [wlocal EXCEPT !.overrides =
                          << numChannelsString, numBitsPerSampleString, sampleRateString >>]
          /\ pump' = [pump EXCEPT ![wtask.id] =
                        [NewPump("stream", TRUE, "codec", wtask.id) EXCEPT !.format =
                           CodecOutputFormat(numChannelsString, numBitsPerSampleString,
                                             sampleRateString)]]
          /\ m_audioPump' = wtask.id
          /\ wpc' = "ret"
  /\ UNCHANGED << m_reco, m_audioIsDone, m_fromMicrophone, m_totalAudioinMS,
                  m_microphoneTimeoutInMS, m_avgBytesPerSecond, promise, queue, tsTerminated,
                  wtask, callerVars, errorVars, termVars, transportVars, cycle >>

\* the task body of InitFromStream; wtask.a: wFormatTag = WAVE_FORMAT_PCM,
\* wtask.b: SpxCreateObjectWithSite("CSpxCodecAdapter") returns an object
InitFromStream ==
  /\ wpc = "run" /\ wtask.op = "InitFromStream"
  /\ IF m_audioPump # Null
     THEN /\ wpc' = "catch"
          /\ wlocal' = [wlocal EXCEPT !.error = AlreadyInitializedError]
          /\ UNCHANGED << m_audioPump, pump, m_codecAdapter >>
     ELSE IF ~wtask.a /\ ~wtask.b
     THEN /\ m_codecAdapter' = Null             \* assigned nullptr, then thrown
          /\ wpc' = "catch"
          /\ wlocal' = [wlocal EXCEPT !.error = CodecError]
          /\ UNCHANGED << m_audioPump, pump >>
     ELSE IF wtask.a
     THEN /\ pump' = [pump EXCEPT ![wtask.id] =
                        IF m_codecAdapter = Null
                        THEN NewPump("stream", TRUE, "stream", Null)
                        ELSE NewPump("stream", TRUE, "codec", m_codecAdapter)]
          /\ m_audioPump' = wtask.id
          /\ wpc' = "ret"
          /\ UNCHANGED << m_codecAdapter, wlocal >>
     ELSE \E numChannelsString \in ChannelCountStrings,
             numBitsPerSampleString \in BitsPerSampleStrings,
             sampleRateString \in SamplerateStrings :
          /\ m_codecAdapter' = wtask.id
          /\ wlocal' = [wlocal EXCEPT !.overrides =
                          << numChannelsString, numBitsPerSampleString, sampleRateString >>]
          /\ pump' = [pump EXCEPT ![wtask.id] =
                        [NewPump("stream", TRUE, "codec", wtask.id) EXCEPT !.format =
                           CodecOutputFormat(numChannelsString, numBitsPerSampleString,
                                             sampleRateString)]]
          /\ m_audioPump' = wtask.id
          /\ wpc' = "ret"
  /\ UNCHANGED << m_reco, m_audioIsDone, m_fromMicrophone, m_totalAudioinMS,
                  m_microphoneTimeoutInMS, m_avgBytesPerSecond, promise, queue, tsTerminated,
                  wtask, callerVars, errorVars, termVars, transportVars, cycle >>

\* the task body of ModifyVoiceProfile, lines 643-648: a reco engine adapter
\* of its own, reco->ModifyVoiceProfile (modifyOk: it does not throw)
ModifyVoiceProfile ==
  /\ wpc = "run" /\ wtask.op = "ModifyVoiceProfile"
  /\ \E modifyOk \in BOOLEAN :
       IF modifyOk
       THEN /\ wlocal' = [wlocal EXCEPT !.result = ProfileResult]
            /\ wpc' = "ret"
       ELSE /\ wlocal' = [wlocal EXCEPT !.error = ModifyError]
            /\ wpc' = "catch"
  /\ UNCHANGED << session, promise, pump, queue, tsTerminated, wtask, callerVars, errorVars,
                  termVars, transportVars, cycle >>

(* ------------- the worker: StartStreamingAudioAndWaitForResult --------- *)
\* GetMicrophoneTimeout throws (ThrowLogicError) when std::stoi does
GetMicrophoneTimeoutThrows(valueFromUser) ==
  valueFromUser # <<"0">> /\ StoiThrows(valueFromUser)

GetMicrophoneTimeout(valueFromUser) ==
  IF valueFromUser = <<"0">> THEN m_microphoneTimeoutInMS ELSE Stoi(valueFromUser)

\* the promise is made before the pump is looked at: a body that finds no
\* pump leaves a promise behind
StartBeginPromiseFirst ==
  /\ wpc = "run" /\ wtask.op = "StartStreaming"
  /\ m_reco' = (IF m_reco = Null THEN cycle.n ELSE m_reco)
  /\ m_audioIsDone' = cycle.n
  /\ IF m_audioPump = Null
     THEN /\ wlocal' = [wlocal EXCEPT !.result = ErrAccess]
          /\ wpc' = "ret"
     ELSE /\ wlocal' = [wlocal EXCEPT !.audioPump = m_audioPump]
          /\ wpc' = "format"
  /\ UNCHANGED << m_audioPump, m_codecAdapter, m_fromMicrophone,
                  m_totalAudioinMS, m_microphoneTimeoutInMS, m_avgBytesPerSecond, promise,
                  pump, queue, tsTerminated, wtask, callerVars, errorVars, termVars, transportVars, cycle >>

\* every body makes a reco engine adapter of its own (no `if (m_reco == nullptr)`)
StartBeginNewReco ==
  /\ wpc = "run" /\ wtask.op = "StartStreaming"
  /\ m_reco' = cycle.n
  /\ IF m_audioPump = Null
     THEN /\ wlocal' = [wlocal EXCEPT !.result = ErrAccess]
          /\ wpc' = "ret"
     ELSE /\ wlocal' = [wlocal EXCEPT !.audioPump = m_audioPump]
          /\ wpc' = "format"
  /\ UNCHANGED << m_audioPump, m_codecAdapter, m_audioIsDone, m_fromMicrophone,
                  m_totalAudioinMS, m_microphoneTimeoutInMS, m_avgBytesPerSecond, promise,
                  pump, queue, tsTerminated, wtask, callerVars, errorVars, termVars, transportVars, cycle >>

\* lines 480-491: create m_reco lazily, give up when there is no pump
StartBegin ==
  /\ wpc = "run" /\ wtask.op = "StartStreaming"
  /\ m_reco' = (IF m_reco = Null THEN cycle.n ELSE m_reco)
  /\ IF m_audioPump = Null
     THEN /\ wlocal' = [wlocal EXCEPT !.result = ErrAccess]
          /\ wpc' = "ret"
     ELSE /\ wlocal' = [wlocal EXCEPT !.audioPump = m_audioPump]
          /\ wpc' = "format"
  /\ UNCHANGED << m_audioPump, m_codecAdapter, m_audioIsDone, m_fromMicrophone,
                  m_totalAudioinMS, m_microphoneTimeoutInMS, m_avgBytesPerSecond, promise,
                  pump, queue, tsTerminated, wtask, callerVars, errorVars, termVars, transportVars, cycle >>

\* lines 493-499 for one outcome of GetFormat / m_reco->SetFormat (formatOk:
\* neither throws) and one value of the property
\* SPEECH-MicrophoneTimeoutInSpeakerRecognitionInMilliseconds (valueFromUser;
\* <<"0">> also stands for the property that is not set, line 538)
StartFormatWith(formatOk, valueFromUser) ==
  /\ wpc = "format"
  /\ IF ~formatOk \/ GetMicrophoneTimeoutThrows(valueFromUser)
     THEN /\ wpc' = "catch"
          /\ wlocal' = IF formatOk
                       THEN [wlocal EXCEPT !.error = ParseError,
                                           !.recoFormat = wlocal.audioPump]
                       ELSE [wlocal EXCEPT !.error = FormatError]
          /\ UNCHANGED << m_microphoneTimeoutInMS, m_totalAudioinMS >>
     ELSE /\ m_microphoneTimeoutInMS' = GetMicrophoneTimeout(valueFromUser)
          /\ m_totalAudioinMS' = 0
          /\ wpc' = "promise"
          /\ wlocal' = [wlocal EXCEPT !.recoFormat = wlocal.audioPump]
  /\ UNCHANGED << m_audioPump, m_codecAdapter, m_reco, m_audioIsDone, m_fromMicrophone,
                  m_avgBytesPerSecond, promise, pump, queue, tsTerminated, wtask,
                  callerVars, errorVars, termVars, transportVars, cycle >>

\* the body without line 496: m_reco never gets the format of the cycle
StartFormatWithoutRecoFormat ==
  /\ wpc = "format"
  /\ \E formatOk \in BOOLEAN, valueFromUser \in TimeoutStrings :
       IF ~formatOk \/ GetMicrophoneTimeoutThrows(valueFromUser)
       THEN /\ wpc' = "catch"
            /\ wlocal' = [wlocal EXCEPT !.error = IF formatOk THEN ParseError ELSE FormatError]
            /\ UNCHANGED << m_microphoneTimeoutInMS, m_totalAudioinMS >>
       ELSE /\ m_microphoneTimeoutInMS' = GetMicrophoneTimeout(valueFromUser)
            /\ m_totalAudioinMS' = 0
            /\ wpc' = "promise"
            /\ UNCHANGED wlocal
  /\ UNCHANGED << m_audioPump, m_codecAdapter, m_reco, m_audioIsDone, m_fromMicrophone,
                  m_avgBytesPerSecond, promise, pump, queue, tsTerminated, wtask,
                  callerVars, errorVars, termVars, transportVars, cycle >>

\* lines 493-499: GetFormat, m_reco->SetFormat (formatOk: neither throws),
\* GetMicrophoneTimeout, m_totalAudioinMS = 0
StartFormat ==
  \E formatOk \in BOOLEAN, valueFromUser \in TimeoutStrings :
     StartFormatWith(formatOk, valueFromUser)

\* lines 502-504: a fresh promise, its future, StartPump (startOk: it does not
\* throw; a file pump whose file was never opened cannot be started)
StartPromiseAndPump ==
  /\ wpc = "promise"
  /\ m_audioIsDone' = cycle.n
  /\ cycle' = [cycle EXCEPT !.chan = cycle.n, !.winner = NoResult]
  /\ \E startOk \in (IF pump[wlocal.audioPump].opened THEN BOOLEAN ELSE {FALSE}) :
       IF startOk
       THEN /\ pump' = [pump EXCEPT ![wlocal.audioPump].state = "Processing",
                                    ![wlocal.audioPump].pc = "format"]
            /\ wlocal' = [wlocal EXCEPT !.chan = cycle.n]
            /\ wpc' = "wait"
       ELSE /\ wpc' = "catch"
            /\ wlocal' = [wlocal EXCEPT !.chan = cycle.n, !.error = StartPumpError]
            /\ UNCHANGED pump
  /\ UNCHANGED << m_audioPump, m_codecAdapter, m_reco, m_fromMicrophone, m_totalAudioinMS,
                  m_microphoneTimeoutInMS, m_avgBytesPerSecond, promise, queue, tsTerminated,
                  wtask, callerVars, errorVars, termVars, transportVars >>

\* lines 507-512: future.wait_for returns ready, result = future.get()
WaitReady ==
  /\ wpc = "wait" /\ promise[wlocal.chan] # Unset
  /\ wlocal' = [wlocal EXCEPT !.result = promise[wlocal.chan]]
  /\ wpc' = "cleanup"
  /\ UNCHANGED << session, promise, pump, queue, tsTerminated, wtask, callerVars, errorVars,
                  termVars, transportVars, cycle >>

\* future.wait() in the place of future.wait_for(): no deadline ends the wait
WaitWithoutDeadline ==
  /\ wpc = "wait" /\ promise[wlocal.chan] = Unset
  /\ FALSE
  /\ UNCHANGED vars

\* lines 507-517: future.wait_for returns timeout after
\* m_microphoneTimeoutInMS + 1min, the result is the error result
WaitTimeout ==
  /\ wpc = "wait" /\ promise[wlocal.chan] = Unset
  /\ wlocal' = [wlocal EXCEPT !.result = ErrTimeout]
  /\ cycle' = [cycle EXCEPT !.winner = ErrTimeout]
  /\ wpc' = "cleanup"
  /\ UNCHANGED << session, promise, pump, queue, tsTerminated, wtask, callerVars, errorVars,
                  termVars, transportVars >>

\* CleanupAfterEachAudioPumping: StopPump, SpxTermAndClear(m_audioPump), the
\* microphone flag and the counter
CleanupAfterEachAudioPumping ==
  /\ pump' = PumpReleased(StopPump(pump), m_audioPump)
  /\ m_audioPump' = Null
  /\ m_fromMicrophone' = FALSE
  /\ m_totalAudioinMS' = 0

\* line 520: the deleter of `finish` runs at the end of the body
StartCleanup ==
  /\ wpc = "cleanup"
  /\ CleanupAfterEachAudioPumping
  /\ wpc' = "ret"
  /\ UNCHANGED << m_codecAdapter, m_reco, m_audioIsDone, m_microphoneTimeoutInMS,
                  m_avgBytesPerSecond, promise, queue, tsTerminated, wtask, wlocal,
                  callerVars, errorVars, termVars, transportVars, cycle >>

\* CreateTask, SPXAPI_CATCH_ONLY then Error(error): set_value on the promise
\* m_audioIsDone refers to, if any; a future_error leaves the packaged task
\* and is stored in the task's future
CatchError ==
  /\ wpc = "catch"
  /\ IF m_audioIsDone = Null
     THEN UNCHANGED << promise, cycle, wlocal >>
     ELSE /\ SetValue(m_audioIsDone, ErrTask)
          /\ wlocal' = [wlocal EXCEPT !.fault = SetValueThrows(m_audioIsDone)]
  /\ wpc' = "ret"
  /\ UNCHANGED << session, pump, queue, tsTerminated, wtask, callerVars, errorVars, termVars, transportVars >>

\* the task is over; ExecuteSync hands wlocal.result to the caller of
\* StartStreamingAudioAndWaitForResult or ModifyVoiceProfile, or rethrows the
\* exception stored in the task's future (wlocal.fault). The body's future is
\* gone with the body.
TaskReturn ==
  /\ wpc = "ret"
  /\ wpc' = "idle" /\ wtask' = NoTask /\ wlocal' = NoLocals
  /\ IF ExecutedSync(wtask.op)
     THEN /\ cpc' = "idle"
          /\ promise' = FutureDestroyed(promise, wlocal.chan)
          /\ cycle' = [NoCycle EXCEPT !.n = cycle.n]
     ELSE UNCHANGED << cpc, promise, cycle >>
  /\ UNCHANGED << session, pump, queue, tsTerminated, nInit, errorVars, termVars, transportVars >>

(* ---------------- the pump thread: SetFormat, ProcessAudio ------------- *)
\* SetFormat(pformat) with a format: the first callback of a started pump
SetFormat(p) ==
  /\ pump[p].pc = "format"
  /\ IF m_reco = Null
     THEN /\ pump' = PumpFatal(p, pump)          \* SPXERR_RUNTIME_ERROR
          /\ UNCHANGED m_avgBytesPerSecond
     ELSE /\ m_avgBytesPerSecond' = PumpAvgBytesPerSec
          /\ pump' = [pump EXCEPT ![p].pc = "loop"]
  /\ UNCHANGED << m_audioPump, m_codecAdapter, m_reco, m_audioIsDone, m_fromMicrophone,
                  m_totalAudioinMS, m_microphoneTimeoutInMS, promise, queue, tsTerminated,
                  workerVars, callerVars, errorVars, termVars, transportVars, cycle >>

\* SetFormat(nullptr) up to m_reco->GetResult(): lines 574-588. fin: the call
\* is the pump's terminating one, not the one ProcessAudio makes
SetFormatNull(p, pm, fin) ==
  IF m_reco = Null THEN PumpFatal(p, pm)               \* SPXERR_RUNTIME_ERROR
  ELSE IF m_audioIsDone # Null
  THEN [pm EXCEPT ![p].pc = "result", ![p].fin = fin, ![p].flushes = @ + 1]
  ELSE PumpReturn(p, [pm EXCEPT ![p].fin = fin])

\* ProcessAudio without `if (m_fromMicrophone)`: every chunk is counted
TotalAfterAnySource(size) ==
  m_totalAudioinMS + FromBytesToMilisecond(size, m_avgBytesPerSecond)

\* m_totalAudioinMS after ProcessAudio has seen a chunk of `size` bytes
TotalAfter(size) ==
  IF m_fromMicrophone
  THEN m_totalAudioinMS + FromBytesToMilisecond(size, m_avgBytesPerSecond)
  ELSE m_totalAudioinMS

\* ProcessAudio decides to end the stream: lines 613-619
EnoughSamples(total) == m_fromMicrophone /\ total >= m_microphoneTimeoutInMS

\* ProcessAudio(audioChunk): lines 603-621, with the first part of the
\* SetFormat(nullptr) it may call; size: audioChunk->size
ProcessAudioChunk(p, size) ==
  /\ pump[p].pc = "loop" /\ ~pump[p].stop /\ pump[p].sent < MaxChunks
  /\ IF m_reco = Null
     THEN /\ pump' = PumpFatal(p, pump)          \* SPXERR_RUNTIME_ERROR
          /\ UNCHANGED m_totalAudioinMS
     ELSE LET sent == [pump EXCEPT ![p].sent = @ + 1,
                                       ![p].bytes = IF m_fromMicrophone THEN @ + size ELSE @]
          IN  /\ m_totalAudioinMS' = TotalAfter(size)
              /\ pump' = IF EnoughSamples(TotalAfter(size))
                         THEN SetFormatNull(p, sent, FALSE)
                         ELSE sent
  /\ UNCHANGED << m_audioPump, m_codecAdapter, m_reco, m_audioIsDone, m_fromMicrophone,
                  m_microphoneTimeoutInMS, m_avgBytesPerSecond, promise, queue, tsTerminated,
                  workerVars, callerVars, errorVars, termVars, transportVars, cycle >>

\* the pump delivers one of the chunks of the model
ProcessAudio(p) == \E size \in ChunkSizes : ProcessAudioChunk(p, size)

\* the pump has no more data or was asked to stop: the terminating
\* SetFormat(nullptr), up to m_reco->GetResult()
EndOfStream(p) ==
  /\ pump[p].pc = "loop"
  /\ pump' = SetFormatNull(p, pump, TRUE)
  /\ UNCHANGED << session, promise, queue, tsTerminated, workerVars, callerVars, errorVars,
                  termVars, transportVars, cycle >>

\* SetFormat(nullptr), lines 588-592: GetResult returns; if (m_audioIsDone)
\* (*m_audioIsDone).set_value(result)
SetFormatResult(p) ==
  /\ pump[p].pc = "result"
  /\ IF m_audioIsDone = Null
     THEN /\ pump' = PumpReturn(p, pump)
          /\ UNCHANGED << promise, cycle >>
     ELSE /\ SetValue(m_audioIsDone, RecoResult)
          /\ pump' = IF SetValueThrows(m_audioIsDone) THEN PumpFatal(p, pump)
                     ELSE [pump EXCEPT ![p].pc = "clear"]
  /\ UNCHANGED << session, queue, tsTerminated, workerVars, callerVars, errorVars, termVars, transportVars >>

\* SetFormat(nullptr), line 593: m_audioIsDone = nullptr
SetFormatClear(p) ==
  /\ pump[p].pc = "clear"
  /\ m_audioIsDone' = Null
  /\ pump' = PumpReturn(p, pump)
  /\ UNCHANGED << m_audioPump, m_codecAdapter, m_reco, m_fromMicrophone, m_totalAudioinMS,
                  m_microphoneTimeoutInMS, m_avgBytesPerSecond, promise, queue, tsTerminated,
                  workerVars, callerVars, errorVars, termVars, transportVars, cycle >>

(* ------------------ Error(msg) from any other thread ------------------- *)
\* Error(msg), lines 563-569: auto audioIsDone = m_audioIsDone, then
\* (*audioIsDone).set_value(result). A call that reads nullptr does nothing at
\* all and is left out. The copy is private to the call and set_value is
\* atomic, so the two lines are one step.
Error ==
  /\ epc = "idle"
  /\ m_audioIsDone # Null
  /\ SetValue(m_audioIsDone, ErrExternal)
  /\ epc' = IF SetValueThrows(m_audioIsDone) THEN "thrown" ELSE "idle"
  /\ UNCHANGED << session, pump, queue, tsTerminated, workerVars, callerVars, termVars, transportVars >>

\* the future_error leaves Error and reaches the thread that called it
ErrorThrown ==
  /\ epc = "thrown"
  /\ epc' = "idle"
  /\ UNCHANGED << session, promise, pump, queue, tsTerminated, workerVars, callerVars,
                  termVars, transportVars, cycle >>

(* -------------------------------- Term --------------------------------- *)
\* Term without the test of line 336: StopPump and Error whatever the pump does
TermAlwaysStopping ==
  /\ tpc = "idle"
  /\ pump' = StopPump(pump)
  /\ tpc' = "stopped"
  /\ cycle' = [cycle EXCEPT !.term = wpc = "wait" /\ promise[wlocal.chan] = Unset]
  /\ UNCHANGED << session, promise, queue, tsTerminated, workerVars, callerVars, errorVars, transportVars >>

\* Term, lines 336-340: a pump that is Processing is stopped first
Term ==
  /\ tpc = "idle"
  /\ IF m_audioPump # Null /\ pump[m_audioPump].state = "Processing"
     THEN /\ pump' = StopPump(pump)
          /\ tpc' = "stopped"
          /\ cycle' = [cycle EXCEPT !.term = wpc = "wait" /\ promise[wlocal.chan] = Unset]
     ELSE /\ tpc' = "join"
          /\ UNCHANGED << pump, cycle >>
  /\ UNCHANGED << session, promise, queue, tsTerminated, workerVars, callerVars, errorVars, transportVars >>

\* Term, lines 342-346: Error("Terminate the http session.") when the promise
\* reference is not null; a future_error leaves Term
TermError ==
  /\ tpc = "stopped"
  /\ IF m_audioIsDone = Null
     THEN /\ tpc' = "join"
          /\ UNCHANGED << promise, cycle >>
     ELSE /\ SetValue(m_audioIsDone, ErrTerminate)
          /\ tpc' = IF SetValueThrows(m_audioIsDone) THEN "thrown" ELSE "join"
  /\ UNCHANGED << session, pump, queue, tsTerminated, workerVars, callerVars, errorVars, transportVars >>

\* the future_error leaves Term: nothing of lines 349-365 has run
TermThrown ==
  /\ tpc = "thrown"
  /\ tpc' = "idle"
  /\ UNCHANGED << session, promise, pump, queue, tsTerminated, workerVars, callerVars,
                  errorVars, transportVars, cycle >>

\* Term, lines 349-365: m_threadService->Term() lets the queue drain and joins
\* the worker; then the pump, the codec adapter and the reco adapter go
TermRelease ==
  /\ tpc = "join" /\ queue = <<>> /\ wpc = "idle"
  /\ tsTerminated' = TRUE
  /\ pump' = PumpReleased(pump, m_audioPump)
  /\ m_audioPump' = Null
  /\ m_codecAdapter' = Null
  /\ m_reco' = Null
  /\ tpc' = "done"
  /\ UNCHANGED << m_audioIsDone, m_fromMicrophone, m_totalAudioinMS, m_microphoneTimeoutInMS,
                  m_avgBytesPerSecond, promise, queue, workerVars, callerVars,
                  errorVars, transportVars, cycle >>

(* ------------------------------ transport ------------------------------ *)
\* everything but the transport
sessionVars == << session, promise, pump, queue, tsTerminated, workerVars, callerVars,
                 errorVars, termVars, cycle >>

\* TransportRequestPrepare / TransportStreamPrepare: Closed -> Connecting, the
\* handshake goes on asynchronously
TransportRequestPrepare ==
  /\ transportState = "Closed"
  /\ transportState' = "Connecting"
  /\ transportReturn' = TransportOk
  /\ UNCHANGED << transportWire, sessionVars >>

\* TransportOpenedCallback: the handshake is over
TransportOpened ==
  /\ transportState = "Connecting"
  /\ transportState' = "Open"
  /\ UNCHANGED << transportWire, transportReturn, sessionVars >>

\* TransportClosedCallback: the connection was closed gracefully
TransportClosed ==
  /\ transportState = "Open"
  /\ transportState' = "Closed"
  /\ UNCHANGED << transportWire, transportReturn, sessionVars >>

\* TransportErrorCallback: the handshake or the open connection fails
TransportFailed ==
  /\ transportState \in {"Connecting", "Open"}
  /\ transportState' = "Failed"
  /\ UNCHANGED << transportWire, transportReturn, sessionVars >>

\* a write that is queued for the handshake to end, whatever the state
TransportWriteAlways(frame) ==
  /\ Len(transportWire) < MaxFrames
  /\ transportWire' = Append(transportWire, frame)
  /\ transportReturn' = TransportOk
  /\ UNCHANGED << transportState, sessionVars >>

\* what TransportMessageWrite, TransportStreamWrite and TransportStreamFlush
\* share: valid only while Open, an error return otherwise
TransportWrite(frame) ==
  /\ Len(transportWire) < MaxFrames
  /\ IF transportState = "Open"
     THEN /\ transportWire' = Append(transportWire, frame)
          /\ transportReturn' = TransportOk
     ELSE /\ transportReturn' = TransportInvalidState
          /\ UNCHANGED transportWire
  /\ UNCHANGED << transportState, sessionVars >>

TransportMessageWrite == TransportWrite("message")

TransportStreamWrite == TransportWrite("chunk")

TransportStreamFlush == TransportWrite("flush")

TransportNext ==
  \/ TransportRequestPrepare
  \/ TransportOpened
  \/ TransportClosed
  \/ TransportFailed
  \/ TransportMessageWrite
  \/ TransportStreamWrite
  \/ TransportStreamFlush

\* the connection of one transport, on a session that is left alone
TransportSpec == Init /\ [][TransportNext]_vars

(* ----------------------- the duration of a chunk ----------------------- *)
\* audioChunk->size of the chunks a microphone pump may hand over, up to some
\* megabytes: 4294967 is the largest size whose product with 1000 is below 2^32
WideChunkSizes == {3, 4, 3200, 64000, 4294967, 4294968, 8589935}

\* nAvgBytesPerSec of 16 bit mono PCM at 1000, 8000 and 16000 samples a second
WideRates == {2000, 16000, 32000}

\* values of m_microphoneTimeoutInMS
WideTimeouts == {2, 5000}

\* a microphone cycle after the pump's first SetFormat: InitFromMicrophone has
\* run, the body of StartStreamingAudioAndWaitForResult waits, the pump is in
\* its loop and has reported its nAvgBytesPerSec
ConversionInit ==
  /\ m_audioPump = 1
  /\ m_codecAdapter = Null
  /\ m_reco = 1
  /\ m_audioIsDone = 1
  /\ m_fromMicrophone = TRUE
  /\ m_totalAudioinMS = 0
  /\ m_microphoneTimeoutInMS \in WideTimeouts
  /\ m_avgBytesPerSecond \in WideRates
  /\ promise = [c \in ChanIds |-> Unset]
  /\ pump = [p \in PumpIds |->
               IF p = 1
               THEN [NewPump("microphone", TRUE, "device", Null) EXCEPT
                       !.state = "Processing", !.pc = "loop"]
               ELSE NoPump]
  /\ queue = <<>>
  /\ tsTerminated = FALSE
  /\ wpc = "wait"
  /\ wtask = [op |-> "StartStreaming", id |-> 1, a |-> FALSE, b |-> FALSE]
  /\ wlocal = [NoLocals EXCEPT !.audioPump = 1, !.chan = 1, !.recoFormat = 1]
  /\ cpc = "blocked" /\ nInit = 1
  /\ epc = "idle"
  /\ tpc = "idle"
  /\ cycle = [NoCycle EXCEPT !.n = 1, !.chan = 1]
  /\ transportState = "Closed"
  /\ transportWire = <<>>
  /\ transportReturn = TransportOk

\* the microphone pump delivers a chunk of any of the sizes
ProcessAudioWide(p) == \E size \in WideChunkSizes : ProcessAudioChunk(p, size)

ConversionNext ==
  \/ \E p \in PumpIds : ProcessAudioWide(p)
  \/ \E p \in PumpIds : SetFormatResult(p)
  \/ \E p \in PumpIds : SetFormatClear(p)

\* the pump thread of a microphone cycle, with chunks and rates of any size
ConversionSpec == ConversionInit /\ [][ConversionNext]_vars

(* ----------------------------- specification --------------------------- *)
Worker ==
  \/ Dequeue \/ InitFromFile \/ InitFromMicrophone \/ InitFromStream \/ ModifyVoiceProfile
  \/ StartBegin \/ StartFormat \/ StartPromiseAndPump \/ WaitReady \/ WaitTimeout
  \/ StartCleanup \/ CatchError \/ TaskReturn

Next ==
  \/ CallInitFromFile
  \/ CallInitFromMicrophone
  \/ CallInitFromStream
  \/ CallStartStreaming
  \/ CallModifyVoiceProfile
  \/ Dequeue
  \/ InitFromFile
  \/ InitFromMicrophone
  \/ InitFromStream
  \/ ModifyVoiceProfile
  \/ StartBegin
  \/ StartFormat
  \/ StartPromiseAndPump
  \/ WaitReady
  \/ WaitTimeout
  \/ StartCleanup
  \/ CatchError
  \/ TaskReturn
  \/ \E p \in PumpIds : SetFormat(p)
  \/ \E p \in PumpIds : ProcessAudio(p)
  \/ \E p \in PumpIds : EndOfStream(p)
  \/ \E p \in PumpIds : SetFormatResult(p)
  \/ \E p \in PumpIds : SetFormatClear(p)
  \/ Error
  \/ ErrorThrown
  \/ Term
  \/ TermError
  \/ TermThrown
  \/ TermRelease

Spec == Init /\ [][Next]_vars

\* the worker thread runs whenever it can: a dequeued task is executed, and
\* future.wait_for returns when the promise is ready or the deadline passes
FairSpec == Spec /\ WF_vars(Worker)

TypeOK ==
  /\ m_audioPump \in {Null} \cup PumpIds
  /\ m_codecAdapter \in {Null} \cup PumpIds
  /\ m_reco \in {Null} \cup ChanIds
  /\ m_audioIsDone \in {Null} \cup ChanIds
  /\ m_fromMicrophone \in BOOLEAN
  /\ m_totalAudioinMS \in Nat
  /\ m_microphoneTimeoutInMS \in Nat
  /\ promise \in [ChanIds -> Results \cup {Unset, Stale}]
  /\ wpc \in {"idle", "run", "format", "promise", "wait", "cleanup", "catch", "ret"}
  /\ cpc \in {"idle", "blocked"}
  /\ epc \in {"idle", "thrown"}
  /\ tpc \in {"idle", "stopped", "join", "done", "thrown"}
  /\ transportState \in TransportStates
  /\ transportReturn \in {TransportOk, TransportInvalidState}

(* ------------------------------- claims -------------------------------- *)
\* the task body of StartStreamingAudioAndWaitForResult is over and
\* ExecuteSync is about to return wlocal.result to the caller
Returning == wpc = "ret" /\ wtask.op = "StartStreaming"

\* the body found a pump: a streaming cycle was begun
CycleBegun == wlocal.audioPump # Null

\* cleanup has run for the pump the cycle used
CleanedUp ==
  /\ m_audioPump = Null
  /\ pump[wlocal.audioPump].state # "Processing" \/ pump[wlocal.audioPump].stop
  /\ m_totalAudioinMS = 0
  /\ ~m_fromMicrophone

\* C1: in every streaming cycle that created a promise, exactly one resolver
\* wins: the result handed to the caller is the value of the first resolver
\* (a set_value that succeeded, or the deadline) of that promise.
C1_FirstResolverWins ==
  (Returning /\ wlocal.chan # Null) =>
     (cycle.winner # NoResult /\ wlocal.result = cycle.winner)

\* C2: every call of StartStreamingAudioAndWaitForResult returns a result
\* value (the engine's result or an error result), never an empty pointer, and
\* raises no fault in the caller.
C2_AlwaysAResultValue == Returning => (wlocal.result \in Results /\ ~wlocal.fault)

\* C3: whenever the call returns after a cycle was begun, cleanup has run: the
\* pump is stopped, m_audioPump is cleared, the counter is 0 and the microphone
\* flag is false, on every exit path of the body.
C3_CleanupOnEveryExit == (Returning /\ CycleBegun) => CleanedUp

\* C4: the call always returns; when the deadline is the first to end the
\* wait, the result is the deadline error and cleanup has run.
C4_DeadlineEndsTheWait ==
  /\ (cpc = "blocked") ~> (cpc = "idle")
  /\ [](Returning /\ cycle.winner = ErrTimeout => wlocal.result = ErrTimeout /\ CleanedUp)

\* C4 witness: a body that nobody resolved returns the deadline error, cleaned up
C4_Witness ==
  /\ Returning /\ cycle.winner = ErrTimeout
  /\ promise[wlocal.chan] = Unset
  /\ wlocal.result = ErrTimeout /\ CleanedUp

\* C5: Term called in an active cycle resolves the promise first and stops the
\* pump afterwards: when Term has stopped the pump, the promise the session
\* refers to is resolved already.
C5_ResolvedBeforePumpStopped ==
  (tpc = "stopped" /\ m_audioIsDone # Null) => promise[m_audioIsDone] # Unset

\* C6: a caller that was blocked on the unresolved promise when Term was called
\* receives the termination error, never the deadline error and never the
\* result of the flush.
C6_TerminationResultWins == (Returning /\ cycle.term) => wlocal.result = ErrTerminate

\* the audio a microphone pump has delivered amounts to the timeout or more
DurationReached(p) ==
  pump[p].bytes * MsPerSecond >= m_microphoneTimeoutInMS * m_avgBytesPerSecond

\* C7: in a microphone cycle, once the delivered audio reaches the timeout
\* ProcessAudio has run the end-of-stream path (FlushAudio, GetResult, the
\* promise) exactly once.
C7_EndOfStreamExactlyOnce ==
  \A p \in PumpIds :
    (/\ wpc = "wait" /\ wlocal.audioPump = p /\ m_fromMicrophone
     /\ pump[p].pc = "loop" /\ DurationReached(p))
    => pump[p].flushes = 1

\* C8: an attempt to resolve a promise that is resolved already is a no-op:
\* no future_error is thrown in Error, in Term's Error or in the task wrapper's
\* Error.
C8_SecondResolveIsNoOp == epc # "thrown" /\ tpc # "thrown" /\ ~wlocal.fault

\* C9: m_audioIsDone refers to a promise only while a body of
\* StartStreamingAudioAndWaitForResult is executing: it is nullptr before the
\* first call, and nullptr again when a body is over that ends with a result
\* value (the engine's result, an error result or the deadline error).
C9_ChannelOnlyDuringCycle ==
  /\ cycle.n = 0 => m_audioIsDone = Null
  /\ (Returning /\ wlocal.result \in Results) => m_audioIsDone = Null

\* C10: when the call returns a result value after a cycle, the codec adapter
\* InitFromStream made for that cycle is gone: m_codecAdapter is nullptr.
C10_CodecAdapterEndsWithCycle ==
  (Returning /\ CycleBegun /\ wlocal.result \in Results) => m_codecAdapter = Null

\* C11: a body of StartStreamingAudioAndWaitForResult that finds no pump goes
\* straight to its return with the access error result: it makes no promise,
\* starts no pump, does not wait, and leaves m_totalAudioinMS, m_fromMicrophone
\* and m_microphoneTimeoutInMS as they were.
C11_NoPumpAccessError ==
  [][(wpc = "run" /\ wtask.op = "StartStreaming" /\ m_audioPump = Null /\ wpc' # wpc)
       => /\ wpc' = "ret" /\ wlocal'.result = ErrAccess /\ wlocal'.chan = Null
          /\ UNCHANGED << m_audioPump, m_audioIsDone, promise, pump, m_totalAudioinMS,
                          m_fromMicrophone, m_microphoneTimeoutInMS >>]_vars

\* C11 witness: a body that found no pump returns the access error
C11_Witness ==
  /\ Returning /\ ~CycleBegun /\ wlocal.result = ErrAccess
  /\ m_audioPump = Null /\ wlocal.chan = Null

\* the tasks InitFromFile, InitFromMicrophone and InitFromStream submit
InitOps == {"InitFromFile", "InitFromMicrophone", "InitFromStream"}

\* C12: the session has at most one pump: an Init* body that runs while
\* m_audioPump is set throws (SPXERR_ALREADY_INITIALIZED) and leaves
\* m_audioPump, the pump objects, m_codecAdapter and m_fromMicrophone as they
\* were; no Init* body ever replaces a pump.
C12_InitNeverReplacesPump ==
  [][(wpc = "run" /\ wtask.op \in InitOps /\ m_audioPump # Null /\ wpc' # wpc)
       => /\ wpc' = "catch"
          /\ UNCHANGED << m_audioPump, pump, m_codecAdapter, m_fromMicrophone >>]_vars

\* C12 witness: an Init* body has thrown because another pump is there
C12_Witness ==
  /\ wpc = "catch" /\ wtask.op \in InitOps
  /\ m_audioPump # Null /\ m_audioPump # wtask.id
  /\ pump[m_audioPump].state # "None" /\ pump[wtask.id] = NoPump

\* an Init* body has thrown SPXERR_ALREADY_INITIALIZED
AlreadyInitialized ==
  /\ wpc = "catch" /\ wtask.op \in InitOps
  /\ m_audioPump # Null /\ m_audioPump # wtask.id

\* C13: the already-initialized failure of an Init* body is the outcome of the
\* Init* call that submitted it: the call waits for its task (it is executed
\* synchronously), so that the failure can reach its caller.
C13_AlreadyInitializedSurfaced == AlreadyInitialized => ExecutedSync(wtask.op)

\* C14: a value of the microphone timeout property that does not parse never
\* aborts the body of StartStreamingAudioAndWaitForResult: no body ends in the
\* task wrapper's catch because of the parse failure (it goes on, with the
\* default timeout, to make the promise and start the pump).
C14_TimeoutParseFailureNeverAborts ==
  ~(wtask.op = "StartStreaming" /\ wpc \in {"catch", "ret"} /\ wlocal.error = ParseError)

\* the InitFromStream body has read the three output format properties
OverridesRead == wtask.op = "InitFromStream" /\ wlocal.overrides # NoOverrides

\* one of the three values does not parse
SomeOverrideFails == \E i \in 1..3 : StoiThrows(wlocal.overrides[i])

\* C15: in InitFromStream for a stream that is not PCM, a value of one of the
\* three output format properties that does not parse never fails the body:
\* the codec adapter gets the defaults 1, 16, 16000, the pump is created with
\* the codec adapter as its reader, and nothing is thrown.
C15_OverrideParseFailureFallsBack ==
  (OverridesRead /\ SomeOverrideFails) =>
     /\ wpc = "ret" /\ wlocal.error = NoError
     /\ m_audioPump = wtask.id /\ m_codecAdapter = wtask.id
     /\ pump[wtask.id].state = "Idle" /\ pump[wtask.id].reader = "codec"
     /\ pump[wtask.id].format = << 1, 16, 16000 >>

\* C15 witness: only the sample rate fails to parse, the body is over
C15_Witness ==
  /\ OverridesRead /\ wpc = "ret"
  /\ ~StoiThrows(wlocal.overrides[1]) /\ ~StoiThrows(wlocal.overrides[2])
  /\ StoiThrows(wlocal.overrides[3])
  /\ pump[wtask.id].format = DefaultFormat

\* C16: each of the three values the codec adapter gets is its own override
\* when that one parses and its own default when it does not, whatever the
\* other two are.
C16_OverridesIndependent ==
  OverridesRead =>
    \A i \in 1..3 :
      pump[wtask.id].format[i] =
        IF StoiThrows(wlocal.overrides[i]) THEN DefaultFormat[i]
        ELSE Stoi(wlocal.overrides[i])

\* C17: a failure raised in a task body (Init*, the streaming body,
\* ModifyVoiceProfile) is caught by the CreateTask wrapper and turned into a
\* call of Error; no exception leaves the wrapper, also when m_audioIsDone
\* refers to a promise that is resolved already.
C17_FailureStaysInWrapper == wlocal.error # NoError => ~wlocal.fault

\* C18: the tasks run one at a time and in the order of their submission. The
\* queue holds the Init* tasks in the order of their calls, and a task whose
\* caller waits for it (StartStreamingAudioAndWaitForResult,
\* ModifyVoiceProfile) behind them; an Init* body runs only when every Init*
\* submitted before it has run, and the body of a waiting call runs only when
\* every task submitted before it has run, so that it sees the pump the Init*
\* calls before it made.
C18_SubmissionOrder ==
  /\ \A i, j \in 1..Len(queue) :
        (i < j /\ queue[i].op \in InitOps /\ queue[j].op \in InitOps)
          => queue[i].id < queue[j].id
  /\ \A i \in 1..Len(queue) : ExecutedSync(queue[i].op) => i = Len(queue)
  /\ wtask.op \in InitOps =>
        \A i \in 1..Len(queue) : queue[i].op \in InitOps => wtask.id < queue[i].id
  /\ ExecutedSync(wtask.op) => queue = <<>>

\* C18 witness: two Init* calls, the second an InitFromFile, and then
\* StartStreamingAudioAndWaitForResult: the streaming body runs after both
\* Init* bodies and has the pump the second one made
C18_Witness ==
  /\ wtask.op = "StartStreaming" /\ wpc = "format"
  /\ nInit = 2 /\ queue = <<>>
  /\ wlocal.audioPump = 2 /\ pump[2].kind = "file"

\* C19: m_audioPump, m_codecAdapter and m_reco are written only by the thread
\* service's worker, inside a task: every step that changes one of them is a
\* step of the worker (the worker's position wpc moves).
C19_LifecycleWritesOnWorker ==
  [][(m_audioPump' # m_audioPump \/ m_codecAdapter' # m_codecAdapter \/ m_reco' # m_reco)
       => wpc' # wpc]_vars

\* C20: an InitFromStream body for a stream that is not PCM, run without a
\* pump when no codec adapter can be created, throws
\* SPXERR_GSTREAMER_NOT_FOUND_ERROR before it creates a pump: it leaves the
\* session without pump and without codec adapter. A pump appears only in an
\* Init* body, so a StartStreamingAudioAndWaitForResult that follows finds
\* none and starts none.
C20_CodecUnavailableBeforePump ==
  [][/\ (/\ wpc = "run" /\ wtask.op = "InitFromStream" /\ m_audioPump = Null
         /\ ~wtask.a /\ ~wtask.b /\ wpc' # wpc)
        => /\ wpc' = "catch" /\ wlocal'.error = CodecError
           /\ m_audioPump' = Null /\ m_codecAdapter' = Null
           /\ pump'[wtask.id] = NoPump
     /\ (m_audioPump = Null /\ m_audioPump' # Null)
        => (wpc = "run" /\ wtask.op \in InitOps /\ wlocal'.error # CodecError)
     /\ (wpc = "promise" /\ wpc' = "wait") => m_audioPump # Null]_vars

\* C20 witness: the body has thrown for want of a codec adapter, and the call
\* submitted next is StartStreamingAudioAndWaitForResult
C20_Witness ==
  /\ wtask.op = "InitFromStream" /\ wpc = "catch" /\ wlocal.error = CodecError
  /\ m_audioPump = Null /\ m_codecAdapter = Null
  /\ queue # <<>> /\ Head(queue).op = "StartStreaming"

\* C21: two streaming cycles of one session have independent promises. The
\* body of each cycle makes a promise of its own, unresolved, and starts the
\* pump with m_totalAudioinMS = 0; and the promise of the running cycle is
\* resolved by a SetFormat(nullptr) only when the pump that delivers it is the
\* pump of that cycle: a late flush completion of an earlier cycle's pump never
\* sets the value the running body will return.
C21_IndependentChannels ==
  [][/\ (wpc = "promise" /\ wpc' = "wait")
        => /\ m_audioIsDone' # m_audioIsDone /\ promise[m_audioIsDone'] = Unset
           /\ m_totalAudioinMS' = 0
     /\ \A p \in PumpIds :
          (/\ pump[p].pc = "result" /\ pump'[p].pc # "result" /\ cycle.chan # Null
           /\ promise'[cycle.chan] # promise[cycle.chan])
          => p = wlocal.audioPump]_vars

\* C22: the reco engine adapter m_reco is made by the first body of
\* StartStreamingAudioAndWaitForResult and stays the same object from then on:
\* no Init* body, no cleanup and no ModifyVoiceProfile body writes m_reco, a
\* later streaming body keeps the one it finds, and only Term (its release
\* part) clears it.
C22_RecoAdapterLazyAndKept ==
  [][/\ (m_reco = Null /\ m_reco' # Null)
        => (wpc = "run" /\ wtask.op = "StartStreaming" /\ m_reco' = cycle.n)
     /\ (m_reco # Null /\ m_reco' # m_reco)
        => (tpc = "join" /\ tpc' = "done" /\ m_reco' = Null)]_vars

\* C22 witness: the body of the second streaming call waits with the adapter
\* the first one made, whose promise was resolved
C22_Witness ==
  /\ wtask.op = "StartStreaming" /\ wpc = "wait"
  /\ cycle.n = 2 /\ m_reco = 1 /\ promise[1] # Unset

\* C23: in every cycle m_reco->SetFormat (line 496) has been called with the
\* format of the cycle's pump before that pump is started (line 504): a pump
\* goes Processing only in a body that has handed its format to m_reco, so
\* every chunk and every flush of the cycle's pump reaches m_reco after it.
C23_RecoFormatBeforePumpStart ==
  [][\A p \in PumpIds :
       /\ (pump[p].state # "Processing" /\ pump'[p].state = "Processing")
          => (wlocal.audioPump = p /\ wlocal.recoFormat = p)
       /\ (/\ wlocal.audioPump = p
           /\ pump'[p].sent > pump[p].sent \/ pump'[p].flushes > pump[p].flushes)
          => wlocal.recoFormat = p]_vars

\* C23 witness: the cycle's pump has delivered a chunk to m_reco, which has the
\* format
C23_Witness ==
  /\ wpc = "wait" /\ wlocal.audioPump # Null /\ wlocal.recoFormat = wlocal.audioPump
  /\ pump[wlocal.audioPump].sent > 0

\* C24 as claimed: Term called when no cycle is active (here: no streaming
\* call was ever made) is a no-op: it leaves the session's members, the
\* promises and the pumps as they were.
C24_TermWithoutCycleIsNoOp ==
  [][(cycle.n = 0 /\ tpc' # tpc) => UNCHANGED << session, promise, pump >>]_vars

\* C24 as amended: Term called while the session's pump is not Processing
\* resolves no promise and stops no pump (it skips lines 338-346); it then
\* waits for the thread service and releases what the session owns:
\* m_audioPump, m_codecAdapter and m_reco are nullptr afterwards, no promise
\* and no running pump is touched.
C24_TermWithoutCycleOnlyReleases ==
  [][/\ (/\ tpc = "idle" /\ tpc' # tpc
         /\ ~(m_audioPump # Null /\ pump[m_audioPump].state = "Processing"))
        => (tpc' = "join" /\ UNCHANGED << session, promise, pump, tsTerminated >>)
     /\ (tpc = "join" /\ tpc' # tpc)
        => /\ tpc' = "done" /\ tsTerminated'
           /\ m_audioPump' = Null /\ m_codecAdapter' = Null /\ m_reco' = Null
           /\ UNCHANGED << promise, m_audioIsDone >>
           /\ \A p \in PumpIds : pump'[p].stop = pump[p].stop]_vars

\* C24 witness: Term has released the pump of a session that was initialized
\* and never streamed
C24_Witness ==
  /\ tpc = "done" /\ cycle.n = 0 /\ nInit = 1 /\ tsTerminated
  /\ m_audioPump = Null /\ pump[1] = NoPump /\ m_audioIsDone = Null

\* C25: a transport error of the category connection failure that is delivered
\* (by Error) while a cycle is active (the body waits on its promise) and is
\* the first to resolve the promise is what the call returns: an error result
\* that carries the transport error's category and its detail string.
C25_TransportErrorCarried ==
  (Returning /\ wlocal.error = NoError /\ cycle.winner = ErrExternal) =>
     /\ wlocal.result = ErrExternal
     /\ ErrorInfoOf(wlocal.result) =
          [ category |-> ConnectionFailure.reason, detail |-> ConnectionFailure.errorString ]

\* C26: TransportMessageWrite, TransportStreamWrite and TransportStreamFlush
\* succeed only while the connection is Open. Called while it is Closed,
\* Connecting or Failed they return an error (a return code that is not zero),
\* send nothing and leave the state of the connection as it is.
C26_WriteOnlyWhileOpen ==
  [][/\ transportWire' # transportWire
        => (transportState = "Open" /\ transportReturn' = TransportOk)
     /\ (transportReturn' = TransportOk /\ transportState' = transportState
         /\ transportState # "Open")
        => UNCHANGED transportVars
     /\ (transportState # "Open" /\ transportState' = transportState
         /\ transportReturn' # transportReturn)
        => (transportReturn' # TransportOk /\ transportWire' = transportWire)]_vars

\* C26 witness: a frame was sent on the open connection, and a write on the
\* failed connection was refused
C26_Witness ==
  /\ transportState = "Failed" /\ transportReturn # TransportOk
  /\ Len(transportWire) > 0

\* C27: an InitFromStream body that creates the pump gives it the codec
\* adapter as its reader exactly when the stream is not PCM; the pump of a PCM
\* stream reads the stream itself and has no codec adapter, also on a session
\* that has been through earlier cycles.
C27_CodecReaderIffNotPcm ==
  (wtask.op = "InitFromStream" /\ wpc = "ret" /\ wlocal.error = NoError) =>
     /\ pump[wtask.id].reader = (IF wtask.a THEN "stream" ELSE "codec")
     /\ wtask.a => pump[wtask.id].codec = Null

\* C28: in a cycle whose pump is a file pump or a stream pump the microphone
\* flag is false, ProcessAudio only hands the chunk to m_reco: m_totalAudioinMS
\* is 0 as long as the body waits, and no chunk of the pump makes ProcessAudio
\* take the end-of-stream path (SetFormat(nullptr)).
C28_OtherSourcesOnlyForward ==
  [][\A p \in PumpIds :
       (/\ wpc = "wait" /\ wlocal.audioPump = p /\ pump[p].kind \in {"file", "stream"})
       => /\ ~m_fromMicrophone /\ m_totalAudioinMS = 0
          /\ pump'[p].sent > pump[p].sent
             => /\ m_totalAudioinMS' = 0
                /\ pump'[p].pc = "loop" /\ pump'[p].flushes = pump[p].flushes]_vars

\* C28 witness: a file pump has delivered all its chunks to a waiting body, the
\* counter is 0 and nothing was flushed
C28_Witness ==
  /\ wpc = "wait" /\ wlocal.audioPump # Null
  /\ pump[wlocal.audioPump].kind = "file" /\ pump[wlocal.audioPump].sent = MaxChunks
  /\ pump[wlocal.audioPump].pc = "loop" /\ pump[wlocal.audioPump].flushes = 0
  /\ m_totalAudioinMS = 0 /\ m_microphoneTimeoutInMS = 2

\* C29: within a cycle, once m_reco was flushed (FlushAudio, called by
\* SetFormat(nullptr), also by the one ProcessAudio makes at the microphone
\* timeout), no chunk of the cycle's pump is handed to m_reco->ProcessAudio
\* any more as long as the body has not ended the cycle.
C29_NoChunkAfterFlush ==
  [][\A p \in PumpIds :
       (/\ wpc = "wait" /\ wlocal.audioPump = p
        /\ pump'[p].sent > pump[p].sent)
       => pump[p].flushes = 0]_vars

\* C30: the duration ProcessAudio adds to m_totalAudioinMS for a chunk of b
\* bytes at r = m_avgBytesPerSecond bytes a second is floor(b * 1000 / r), as
\* if computed without wrap-around, and r is not 0 when it is computed.
\* (floor(b * 1000 / r) is written with the quotient and the remainder of b
\* by r, which keeps the numbers small.)
C30_DurationWithoutWrapAround ==
  [][\A p \in PumpIds :
       (m_fromMicrophone /\ pump'[p].sent = pump[p].sent + 1)
       => LET b == pump'[p].bytes - pump[p].bytes
              r == m_avgBytesPerSecond
          IN  /\ r > 0
              /\ m_totalAudioinMS' - m_totalAudioinMS =
                   (b \div r) * MsPerSecond + ((b % r) * MsPerSecond) \div r]_vars

\* C31: an Init* body that fails part-way (Open(filename) throws in
\* InitFromFile, the codec adapter cannot be created in InitFromStream) is in
\* the wrapper's catch with m_audioPump still nullptr, so that a later Init*
\* passes the SPXERR_ALREADY_INITIALIZED test and a later cycle finds no pump.
C31_FailedInitLeavesNoPump ==
  (wtask.op \in InitOps /\ wpc = "catch" /\ wlocal.error \in {OpenError, CodecError})
     => m_audioPump = Null

\* C32: the microphone timeout a cycle uses (and with it the deadline of the
\* wait, m_microphoneTimeoutInMS + 1min) is the one the configuration gives
\* when the cycle starts: the number in the property when it is set, and the
\* session's default when the property is not set or is "0", whatever an
\* earlier cycle of the session has stored.
C32_TimeoutFromConfigurationAtStart ==
  [][\A valueFromUser \in TimeoutStrings :
       (StartFormatWith(TRUE, valueFromUser) /\ wpc' = "promise")
       => m_microphoneTimeoutInMS' =
            (IF valueFromUser = <<"0">> THEN DefaultMicrophoneTimeoutInMS
                                        ELSE Stoi(valueFromUser))]_vars

====
